---- MODULE Spec2Model ----
(***************************************************************************)
(* Model of the person repository of the Shopiz backend                    *)
(* (modules/persons/person.repository.ts) running against the relational   *)
(* schema its test suite creates: table roles, and table persons with a    *)
(* primary-key id, NOT NULL name, NOT NULL UNIQUE email, a nullable        *)
(* role_id with a foreign key to roles(id), and is_banned defaulting to    *)
(* false.  The created_at / updated_at columns take now() on insert, can   *)
(* never be written by the repository and are read by none of its          *)
(* queries; they are left out of the rows.                                 *)
(*                                                                         *)
(* One action per repository function; each action is the whole call:      *)
(* the statement it issues, the constraint checks the store applies to     *)
(* that statement, and the value or rejection the promise settles with,    *)
(* which is recorded in the variable last.                                 *)
(***************************************************************************)
EXTENDS Integers, FiniteSets, Sequences, TLC

\* ---------------------------------------------------------------- bounds
\* Largest number of rows the persons table is allowed to hold in the model.
MaxPersons == 2

\* ---------------------------------------------------------------- values
\* SQL NULL, a property the caller left out of the object, and the value of
\* a promise that resolves with nothing / executeTakeFirst() on no row.
\* What a call resolves with is kept as the set of rows it returns, so
\* undefined is the empty set and a single row r is {r}.
NULL == "NULL"
DEFAULT == "DEFAULT"
Undefined == {}

\* uuid values gen_random_uuid() or a caller can produce for persons.id
PersonIds == {"p1", "p2", "p3"}
\* uuid values gen_random_uuid() produces for roles.id
RoleIds == {"r1"}
\* the all-zero uuid the tests use: it is never the id of a stored role
ZeroUuid == "00000000-0000-0000-0000-000000000000"
Names == {"John Doe", "Jane Smith"}
Emails == {"john@example.com", "jane@example.com"}
RoleNames == {"USER"}

\* NewPerson = Insertable<PersonTable>: name, email, role_id, is_banned are
\* required, the Generated id is optional.
NewPerson ==
    [id : PersonIds \cup {DEFAULT}, name : Names, email : Emails,
     role_id : RoleIds \cup {ZeroUuid}, is_banned : BOOLEAN]

VARIABLES
    roles,      \* rows of table roles: [id, name]
    persons,    \* rows of table persons: [id, name, email, role_id, is_banned]
    last        \* the last repository call: [op, arg, outcome, ret],
                \* ret the set of rows the call resolved with

vars == <<roles, persons, last>>

NoCall == [op |-> "none", arg |-> Undefined, outcome |-> "none", ret |-> Undefined]

\* ---------------------------------------------------------------- schema
\* The constraint of a persons table created without primaryKey() on id.
PrimaryKeyDropped(rows, row) == TRUE

\* persons.id is the primary key: no stored row has the new row's id.
PrimaryKeyOk(rows, row) == \A p \in rows : p.id # row.id

\* The constraint of a persons table created without .unique() on email.
EmailUniqueDropped(rows, row) == TRUE

\* persons.email is UNIQUE: no stored row has the new row's email.
EmailUniqueOk(rows, row) == \A p \in rows : p.email # row.email

\* The constraint of a persons table created without fk_role_id.
FkRoleDropped(rls, row) == TRUE

\* fk_role_id: a non-null role_id is the id of a stored role.
FkRoleOk(rls, row) == row.role_id = NULL \/ \E r \in rls : r.id = row.role_id

\* Whether the store accepts `row` as a new row next to `rows`.
InsertAccepted(rls, rows, row) ==
    /\ PrimaryKeyOk(rows, row)
    /\ EmailUniqueOk(rows, row)
    /\ FkRoleOk(rls, row)

\* The row an insert of `person` builds; `gen` is what gen_random_uuid()
\* returns when the caller gave no id.
InsertedRow(person, gen) ==
    [id |-> IF person.id = DEFAULT THEN gen ELSE person.id,
     name |-> person.name,
     email |-> person.email,
     role_id |-> person.role_id,
     is_banned |-> person.is_banned]

\* ---------------------------------------------------------------- actions
Init ==
    /\ roles = {}
    /\ persons = {}
    /\ last = NoCall

\* db.insertInto('roles').values({name, description}).returningAll()
InsertRole ==
    \E id \in RoleIds, name \in RoleNames :
        /\ \A r \in roles : r.id # id
        /\ roles' = roles \cup {[id |-> id, name |-> name]}
        /\ last' = NoCall
        /\ UNCHANGED persons

\* afterEach: truncate table persons cascade; truncate table roles cascade
Truncate ==
    /\ roles # {} \/ persons # {}
    /\ roles' = {}
    /\ persons' = {}
    /\ last' = NoCall

\* createPerson(person): insert ... returning *, executeTakeFirstOrThrow().
\* A constraint violation makes the statement fail, the promise rejects and
\* no row is stored; otherwise the stored row is returned.
createPerson ==
    \E person \in NewPerson, gen \in PersonIds :
        /\ IF person.id = DEFAULT
              THEN \A p \in persons : p.id # gen
              ELSE gen = person.id
        /\ LET row == InsertedRow(person, gen) IN
           IF InsertAccepted(roles, persons, row)
           THEN /\ Cardinality(persons) < MaxPersons
                /\ persons' = persons \cup {row}
                /\ last' = [op |-> "createPerson", arg |-> person,
                            outcome |-> "resolved", ret |-> {row}]
           ELSE /\ persons' = persons
                /\ last' = [op |-> "createPerson", arg |-> person,
                            outcome |-> "rejected", ret |-> Undefined]
        /\ UNCHANGED roles

\* A select of every row, its where clause on id having been lost.
PersonsWithIdUnfiltered(rows, id) == rows

\* selectFrom('persons').where('id', '=', id).selectAll()
PersonsWithId(rows, id) == {p \in rows : p.id = id}

\* findPersonById(id): executeTakeFirst() resolves with the first row of the
\* result, or with undefined when the result is empty.  Reads only.
findPersonById ==
    \E id \in PersonIds \cup {ZeroUuid} :
        LET found == PersonsWithId(persons, id) IN
        /\ \E r \in (IF found = {} THEN {Undefined} ELSE {{p} : p \in found}) :
               last' = [op |-> "findPersonById", arg |-> id,
                        outcome |-> "resolved", ret |-> r]
        /\ UNCHANGED <<roles, persons>>

\* criteria: Partial<Person>, restricted to the keys findPeople reads.  A key
\* the caller left out is DEFAULT; the empty string is a value a caller can
\* give for name and email.
PersonCriteria ==
    [id : PersonIds \cup {DEFAULT},
     name : Names \cup {DEFAULT, ""},
     email : Emails \cup {DEFAULT, ""}]

\* `if (criteria.k)`: a string property passes the test unless it is
\* undefined or the empty string.
Truthy(v) == v # DEFAULT /\ v # ""

\* The query of a findPeople that lost its where clause on email.
FindPeopleRowsNoEmail(rows, criteria) ==
    {p \in rows :
        /\ Truthy(criteria.id) => p.id = criteria.id
        /\ Truthy(criteria.name) => p.name = criteria.name}

\* The query findPeople builds: one where clause per truthy key.
FindPeopleRows(rows, criteria) ==
    {p \in rows :
        /\ Truthy(criteria.id) => p.id = criteria.id
        /\ Truthy(criteria.name) => p.name = criteria.name
        /\ Truthy(criteria.email) => p.email = criteria.email}

\* findPeople(criteria): execute() resolves with every row of the result.
\* Reads only.
findPeople ==
    \E criteria \in PersonCriteria :
        /\ last' = [op |-> "findPeople", arg |-> criteria,
                    outcome |-> "resolved",
                    ret |-> FindPeopleRows(persons, criteria)]
        /\ UNCHANGED <<roles, persons>>

\* updatePerson: UpdatePerson = Updateable<PersonTable>, an object holding
\* any of the columns id, name, email, role_id, is_banned.  The model issues
\* every update of a single column and the updates of name and is_banned
\* together.
PersonUpdates ==
    {[id |-> v] : v \in PersonIds}
    \cup {[name |-> v] : v \in Names}
    \cup {[email |-> v] : v \in Emails}
    \cup {[role_id |-> v] : v \in RoleIds \cup {ZeroUuid}}
    \cup {[is_banned |-> v] : v \in BOOLEAN}
    \cup {[name |-> v, is_banned |-> b] : v \in Names, b \in BOOLEAN}

\* An update that lost its where clause: every row is a target.
UpdateTargetsUnfiltered(rows, id) == rows

\* updateTable('persons') ... .where('id', '=', id): the rows to update.
UpdateTargets(rows, id) == {p \in rows : p.id = id}

\* A set() that does not write is_banned.
UpdatedRowKeepsBan(p, u) ==
    [k \in DOMAIN p |-> IF k \in DOMAIN u /\ k # "is_banned" THEN u[k] ELSE p[k]]

\* .set(updatePerson): the row with the columns of u overwritten.
UpdatedRow(p, u) ==
    [k \in DOMAIN p |-> IF k \in DOMAIN u THEN u[k] ELSE p[k]]

\* Whether the store accepts the update: every rewritten row satisfies the
\* constraints of the table next to the rows the update leaves alone.
UpdateAccepted(rls, rows, id, u) ==
    LET hit == UpdateTargets(rows, id)
        kept == rows \ hit
    IN \A p \in hit :
          /\ PrimaryKeyOk(kept, UpdatedRow(p, u))
          /\ EmailUniqueOk(kept, UpdatedRow(p, u))
          /\ FkRoleOk(rls, UpdatedRow(p, u))

\* updatePerson(id, updatePerson): update ... set ... where id = id, then
\* return nothing.  A constraint violation makes the statement fail, the
\* promise rejects and no row changes; an update that matches no row is
\* not an error.
updatePerson ==
    \E id \in PersonIds \cup {ZeroUuid}, u \in PersonUpdates :
        /\ LET hit == UpdateTargets(persons, id) IN
           IF UpdateAccepted(roles, persons, id, u)
           THEN /\ persons' = (persons \ hit) \cup {UpdatedRow(p, u) : p \in hit}
                /\ last' = [op |-> "updatePerson", arg |-> [id |-> id, set |-> u],
                            outcome |-> "resolved", ret |-> Undefined]
           ELSE /\ persons' = persons
                /\ last' = [op |-> "updatePerson", arg |-> [id |-> id, set |-> u],
                            outcome |-> "rejected", ret |-> Undefined]
        /\ UNCHANGED roles

Next ==
    \/ InsertRole
    \/ Truncate
    \/ createPerson
    \/ findPersonById
    \/ findPeople
    \/ updatePerson

Spec == Init /\ [][Next]_vars

\* ---------------------------------------------------------------- claims
StoredEmails == {p.email : p \in persons}
StoredRoleIds == {r.id : r \in roles}

\* C10: a createPerson call whose email equals the email of an already
\* stored person rejects, and the persons table is the same after the call
\* as before it (no new person is stored).
C10_DuplicateEmailRejected ==
    [][(last'.op = "createPerson" /\ last'.arg.email \in StoredEmails)
          => (last'.outcome = "rejected" /\ persons' = persons)]_vars

\* C10 witness: a createPerson call was rejected although its role_id names
\* a stored role and its id was generated, its email being a stored one.
C10_Witness ==
    /\ last.op = "createPerson"
    /\ last.outcome = "rejected"
    /\ last.arg.id = DEFAULT
    /\ last.arg.role_id \in StoredRoleIds
    /\ last.arg.email \in StoredEmails
    /\ \E p \in persons : p.email = last.arg.email /\ p.name # last.arg.name

StoredIds == {p.id : p \in persons}

\* C11 as stated: a createPerson call whose role_id is not the id of a
\* stored role rejects and stores no person, and every createPerson call
\* whose role_id is the id of a stored role succeeds.
C11_AsStated ==
    [][last'.op = "createPerson"
          => IF last'.arg.role_id \in StoredRoleIds
             THEN last'.outcome = "resolved"
             ELSE last'.outcome = "rejected" /\ persons' = persons]_vars

\* C11 amended: a createPerson call whose role_id is not the id of a stored
\* role rejects and stores no person; a call whose role_id is the id of a
\* stored role, whose email is no stored person's email and whose id, when
\* given, is no stored person's id, resolves with a row carrying the given
\* values, and that row is the one row added to the table.
C11_ForeignKeyEnforced ==
    [][last'.op = "createPerson"
          => IF last'.arg.role_id \notin StoredRoleIds
             THEN last'.outcome = "rejected" /\ persons' = persons
             ELSE (last'.arg.email \notin StoredEmails
                   /\ last'.arg.id \notin StoredIds)
                  => /\ last'.outcome = "resolved"
                     /\ persons' = persons \cup last'.ret
                     /\ \E r \in last'.ret :
                          /\ last'.ret = {r}
                          /\ r \notin persons
                          /\ r.role_id = last'.arg.role_id
                          /\ r.email = last'.arg.email
                          /\ r.name = last'.arg.name]_vars

\* C11 witness: a createPerson call naming the all-zero role id was rejected
\* although its email and id would have been accepted, while a person
\* created with the id of the stored role is in the table.
C11_Witness ==
    /\ last.op = "createPerson"
    /\ last.outcome = "rejected"
    /\ roles # {}
    /\ last.arg.role_id = ZeroUuid
    /\ last.arg.email \notin StoredEmails
    /\ last.arg.id \notin StoredIds
    /\ \E p \in persons : p.role_id \in StoredRoleIds

\* C12: a findPersonById(r.id) issued right after a createPerson(p) that
\* resolved with r resolves with the stored row whose id is r.id and whose
\* name and email are those of p; findPersonById(id) for an id no stored
\* person has resolves with undefined.  It never changes the tables.
C12_FindAfterCreate ==
    [][last'.op = "findPersonById"
          => /\ persons' = persons /\ roles' = roles
             /\ (last'.arg \notin StoredIds => last'.ret = Undefined)
             /\ (last.op = "createPerson" /\ last.outcome = "resolved"
                 /\ \E r \in last.ret : r.id = last'.arg)
                => \E q \in persons :
                     /\ last'.ret = {q}
                     /\ q.id = last'.arg
                     /\ q.name = last.arg.name
                     /\ q.email = last.arg.email]_vars

\* C12 witness: findPersonById resolved with a stored row having the asked
\* id while another person is stored too.
C12_Witness ==
    /\ last.op = "findPersonById"
    /\ \E q \in persons : last.ret = {q} /\ q.id = last.arg
    /\ Cardinality(persons) = 2

\* C13 as stated: findPeople(criteria) resolves with exactly the stored
\* persons that match every id, name and email value given in criteria.
C13_AsStated ==
    [][last'.op = "findPeople"
          => last'.ret =
               {p \in persons :
                   /\ last'.arg.id # DEFAULT => p.id = last'.arg.id
                   /\ last'.arg.name # DEFAULT => p.name = last'.arg.name
                   /\ last'.arg.email # DEFAULT => p.email = last'.arg.email}]_vars

\* C13 amended: findPeople(criteria) resolves with exactly the stored
\* persons that match every non-empty id, name and email value given in
\* criteria, an empty string counting as not given; with no such value it
\* resolves with all stored persons.  It never changes the tables.
C13_FindPeopleExact ==
    [][last'.op = "findPeople"
          => /\ persons' = persons /\ roles' = roles
             /\ last'.ret =
                  {p \in persons :
                      /\ last'.arg.id \notin {DEFAULT, ""} => p.id = last'.arg.id
                      /\ last'.arg.name \notin {DEFAULT, ""} => p.name = last'.arg.name
                      /\ last'.arg.email \notin {DEFAULT, ""} => p.email = last'.arg.email}
             /\ (/\ last'.arg.id \in {DEFAULT, ""}
                 /\ last'.arg.name \in {DEFAULT, ""}
                 /\ last'.arg.email \in {DEFAULT, ""}) => last'.ret = persons]_vars

\* C13 witness: findPeople with a name, an empty email and no id resolved
\* with the two stored persons, both having that name.
C13_Witness ==
    /\ last.op = "findPeople"
    /\ Cardinality(persons) = 2
    /\ last.arg.id = DEFAULT
    /\ last.arg.name \in Names
    /\ last.arg.email = ""
    /\ last.ret = persons

\* The columns of an update u hold their new values in row q.
HoldsValuesOf(q, u) == \A k \in DOMAIN u : q[k] = u[k]

\* C14 as stated: updatePerson(id, u) on a stored person sets that person's
\* fields to the values in u: after the call the query of findPersonById(id)
\* yields a row holding the values of u.
C14_AsStated ==
    [][(last'.op = "updatePerson" /\ last'.arg.id \in StoredIds)
          => \E q \in PersonsWithId(persons', last'.arg.id) :
                HoldsValuesOf(q, last'.arg.set)]_vars

\* C14 amended: updatePerson(id, u) on a stored person, when u's email is no
\* other stored person's email, u's role_id is the id of a stored role and
\* u's id is no other stored person's id, resolves and sets that person's
\* fields to the values in u and leaves its other fields and all other
\* persons as they were; the query of findPersonById for the person's id
\* (u's id when u holds one) then yields exactly that row.
C14_UpdateSetsFields ==
    [][(last'.op = "updatePerson" /\ last'.arg.id \in StoredIds)
          => \A old \in persons : old.id = last'.arg.id =>
               LET u == last'.arg.set
                   others == persons \ {old}
                   newId == IF "id" \in DOMAIN u THEN u.id ELSE old.id
               IN  (/\ "email" \in DOMAIN u => \A o \in others : o.email # u.email
                    /\ "role_id" \in DOMAIN u => u.role_id \in StoredRoleIds
                    /\ "id" \in DOMAIN u => \A o \in others : o.id # u.id)
                   => /\ last'.outcome = "resolved"
                      /\ \E q \in persons' :
                           /\ PersonsWithId(persons', newId) = {q}
                           /\ HoldsValuesOf(q, u)
                           /\ \A k \in DOMAIN old \ DOMAIN u : q[k] = old[k]
                           /\ persons' = others \cup {q}]_vars

\* C14 witness: an updatePerson of name and is_banned together resolved on a
\* stored person, who now holds both values, another person being stored.
C14_Witness ==
    /\ last.op = "updatePerson"
    /\ last.outcome = "resolved"
    /\ DOMAIN last.arg.set = {"name", "is_banned"}
    /\ last.arg.set.is_banned
    /\ Cardinality(persons) = 2
    /\ \E q \in persons : q.id = last.arg.id /\ HoldsValuesOf(q, last.arg.set)

\* C15: updatePerson(id, u) with an id no stored person has resolves (no
\* error) with undefined and leaves the persons table exactly as it was: no
\* person is created and none is changed.
C15_UpdateMissingIsNoOp ==
    [][(last'.op = "updatePerson" /\ last'.arg.id \notin StoredIds)
          => /\ last'.outcome = "resolved"
             /\ last'.ret = Undefined
             /\ persons' = persons]_vars

\* C15 witness: an updatePerson naming the all-zero id and a role_id that is
\* no stored role resolved while two persons are stored.
C15_Witness ==
    /\ last.op = "updatePerson"
    /\ last.outcome = "resolved"
    /\ last.arg.id = ZeroUuid
    /\ DOMAIN last.arg.set = {"role_id"}
    /\ last.arg.set.role_id = ZeroUuid
    /\ Cardinality(persons) = 2

\* No two stored persons have the same id, and no two the same email.
IdsAndEmailsUnique ==
    \A a, b \in persons : (a.id = b.id \/ a.email = b.email) => a = b

\* C16: in every state reached by createPerson and updatePerson calls no two
\* stored persons have the same id and no two the same email; and an
\* updatePerson that sets a stored person's email to the email of another
\* stored person rejects and leaves the persons table as it was.
C16_UniqueIdAndEmail ==
    /\ []IdsAndEmailsUnique
    /\ [][(/\ last'.op = "updatePerson"
           /\ "email" \in DOMAIN last'.arg.set
           /\ \E p, q \in persons :
                /\ p.id = last'.arg.id
                /\ q # p
                /\ q.email = last'.arg.set.email)
          => (last'.outcome = "rejected" /\ persons' = persons)]_vars

\* C16 witness: an updatePerson was rejected that named a stored person and
\* the email of another stored person.
C16_Witness ==
    /\ last.op = "updatePerson"
    /\ last.outcome = "rejected"
    /\ DOMAIN last.arg.set = {"email"}
    /\ \E p, q \in persons :
         /\ p.id = last.arg.id
         /\ q.id # p.id
         /\ q.email = last.arg.set.email

====
